---- MODULE Spec2Model ----
(***************************************************************************)
(* The Magpie Pratt parser (package parser) and the observations of the    *)
(* AST nodes it builds (package ast), as a state machine.                  *)
(*                                                                         *)
(* The Go call stack is explicit: `stack` is a sequence of frames, one per *)
(* active parse function, each with the function's name, the place it      *)
(* resumes at, its argument and its locals.  One action per parse function *)
(* runs the function's code from the frame's place up to its next call or  *)
(* its return; `ret` carries the value a returning function hands back.    *)
(***************************************************************************)
EXTENDS Integers, Sequences, FiniteSets, TLC

VARIABLES
    p,      \* the Parser struct: l, errors, errorLines, curToken, peekToken
    stack,  \* the call stack of parse functions, innermost last
    ret,    \* the value returned by the function that returned last
    steps   \* history: the number of steps taken so far

vars == <<p, stack, ret, steps>>

-----------------------------------------------------------------------------
(* Tokens and positions (package token, as the parser uses it).            *)

\* The absent value: a nil interface, a nil pointer.
Nil == [node |-> "nil"]

\* token.Position{Filename, Line, Col}; the file name is the same everywhere
\* and is left out.
Position(line, col) == [Line |-> line, Col |-> col]

\* Position.Sline(): "filename:line".
Sline(pos) == pos.Line

\* token.Token{Pos, Type, Literal}
Token(type, literal, pos) == [Type |-> type, Literal |-> literal, Pos |-> pos]

\* The zero value of token.Token (a field the parser never assigns).
ZeroToken == Token("", "", Position(0, 0))

\* utf8.RuneCountInString; every literal of the model is ASCII.
RuneCountInString(s) == Len(s)

\* The kind the lexer gives each lexeme of the model's source texts.
TokenTypeOf(lit) ==
    CASE lit = "@" -> "ILLEGAL"
      [] lit \in {"1", "2", "3", "1.2.3"} -> "NUMBER"
      [] lit = "s" -> "STRING"
      [] lit \in {"a", "b", "c"} -> "IDENTIFIER"
      [] lit = "true" -> "TRUE"
      [] lit = "false" -> "FALSE"
      [] lit = "nil" -> "NIL"
      [] lit = "fn" -> "FUNCTION"
      [] lit = "let" -> "LET"
      [] lit = "return" -> "RETURN"
      [] lit = "if" -> "IF"
      [] lit = "else" -> "ELSE"
      [] lit = "{" -> "LBRACE"
      [] lit = "}" -> "RBRACE"
      [] lit = "(" -> "LPAREN"
      [] lit = ")" -> "RPAREN"
      [] lit = "[" -> "LBRACKET"
      [] lit = "]" -> "RBRACKET"
      [] lit = "," -> "COMMA"
      [] lit = ":" -> "COLON"
      [] lit = ";" -> "SEMICOLON"
      [] lit = "=" -> "ASSIGN"
      [] lit = "." -> "DOT"
      [] lit = "+" -> "PLUS"
      [] lit = "-" -> "MINUS"
      [] lit = "*" -> "MULTIPLY"
      [] lit = "/" -> "DIVIDE"
      [] lit = "%" -> "MOD"
      [] lit = "**" -> "POWER"
      [] lit = "!" -> "BANG"
      [] lit = "==" -> "EQ"
      [] lit = "!=" -> "NEQ"
      [] lit = "<" -> "LT"
      [] lit = "<=" -> "LE"
      [] lit = ">" -> "GT"
      [] lit = ">=" -> "GE"
      [] lit = "++" -> "INCREMENT"
      [] lit = "--" -> "DECREMENT"

\* The column of lexeme i of a one-line source text whose lexemes are
\* separated by single spaces.
RECURSIVE ColOf(_, _)
ColOf(text, i) ==
    IF i = 1 THEN 1 ELSE ColOf(text, i - 1) + RuneCountInString(text[i - 1]) + 1

\* The token stream of a source text, given as its sequence of lexemes.
Lex(text) ==
    [i \in 1..Len(text) |->
        Token(TokenTypeOf(text[i]), text[i], Position(1, ColOf(text, i)))]

\* lexer.Lexer: the tokens of the input and the index of the next one.
Lexer(text) == [input |-> Lex(text), next |-> 1, eofCol |-> ColOf(text, Len(text) + 1)]

\* Lexer.NextToken(): the next token, and EOF indefinitely once the input is
\* exhausted.
NextToken(l) ==
    IF l.next <= Len(l.input)
    THEN [tok |-> l.input[l.next], l |-> [l EXCEPT !.next = l.next + 1]]
    ELSE [tok |-> Token("EOF", "", Position(1, l.eofCol)), l |-> l]

-----------------------------------------------------------------------------
(* Precedences and the dispatch tables.                                    *)

LOWEST == 1
EQUALS == 2
LESSGREATER == 3
SUM == 4
PRODUCT == 5
PREFIX == 6
INCREMENT == 7
CALL == 8

precedences ==
    [t \in {"EQ", "NEQ"} |-> EQUALS] @@
    [t \in {"LT", "LE", "GT", "GE"} |-> LESSGREATER] @@
    [t \in {"PLUS", "MINUS"} |-> SUM] @@
    [t \in {"MULTIPLY", "DIVIDE", "MOD", "POWER"} |-> PRODUCT] @@
    [t \in {"LPAREN", "DOT", "LBRACKET"} |-> CALL] @@
    [t \in {"INCREMENT", "DECREMENT"} |-> INCREMENT]

\* registerAction, the prefix table.  Line 104 registers
\* parseInfixIllegalExpression as the PREFIX parselet of ILLEGAL, replacing
\* the entry of line 87.
prefixParseFns ==
    [t \in {"ILLEGAL"} |-> "parseInfixIllegalExpression"] @@
    [t \in {"NUMBER"} |-> "parseNumber"] @@
    [t \in {"IDENTIFIER"} |-> "parseIdentifier"] @@
    [t \in {"STRING"} |-> "parseStringLiteral"] @@
    [t \in {"FUNCTION"} |-> "parseFunctionLiteral"] @@
    [t \in {"TRUE", "FALSE"} |-> "parseBooleanLiteral"] @@
    [t \in {"LBRACKET"} |-> "parseArrayLiteral"] @@
    [t \in {"LBRACE"} |-> "parseHashLiteral"] @@
    [t \in {"NIL"} |-> "parseNilExpression"] @@
    [t \in {"PLUS", "MINUS", "BANG"} |-> "parsePrefixExpression"] @@
    [t \in {"LPAREN"} |-> "parseGroupedExpression"] @@
    [t \in {"IF"} |-> "parseIfExpression"]

\* registerAction, the infix table.
infixParseFns ==
    [t \in {"PLUS", "MINUS", "MULTIPLY", "DIVIDE", "MOD", "POWER",
            "LT", "LE", "GT", "GE", "EQ", "NEQ"} |-> "parseInfixExpression"] @@
    [t \in {"LPAREN"} |-> "parseCallExpression"] @@
    [t \in {"LBRACKET"} |-> "parseIndexExpression"] @@
    [t \in {"INCREMENT", "DECREMENT"} |-> "parsePostfixExpression"] @@
    [t \in {"DOT"} |-> "parseMethodCallExpression"]

-----------------------------------------------------------------------------
(* The parser's token-window helpers.  Each takes the Parser struct and    *)
(* gives the struct as the call leaves it.                                 *)

curTokenIs(q, t) == q.curToken.Type = t

peekTokenIs(q, t) == q.peekToken.Type = t

peekPrecedence(q) ==
    IF q.peekToken.Type \in DOMAIN precedences
    THEN precedences[q.peekToken.Type]
    ELSE LOWEST

curPrecedence(q) ==
    IF q.curToken.Type \in DOMAIN precedences
    THEN precedences[q.curToken.Type]
    ELSE LOWEST

nextToken(q) ==
    LET n == NextToken(q.l)
    IN  [q EXCEPT !.curToken = q.peekToken, !.peekToken = n.tok, !.l = n.l]

\* An entry of p.errors: the message's kind and the values formatted into it.
Error(msg, pos, a, b) == [msg |-> msg, Pos |-> pos, a |-> a, b |-> b]

\* peekError without the append to errorLines.
peekError_NoLine(q, t) ==
    LET newPos == [q.curToken.Pos EXCEPT
                      !.Col = q.curToken.Pos.Col + RuneCountInString(q.curToken.Literal)]
        msg == Error("expected next token", newPos, t, q.peekToken.Type)
    IN  [q EXCEPT !.errors = Append(q.errors, msg)]

\* peekError keeping only the newest error.
peekError_Overwrite(q, t) ==
    LET newPos == [q.curToken.Pos EXCEPT
                      !.Col = q.curToken.Pos.Col + RuneCountInString(q.curToken.Literal)]
        msg == Error("expected next token", newPos, t, q.peekToken.Type)
    IN  [q EXCEPT !.errors = <<msg>>,
                  !.errorLines = <<Sline(q.curToken.Pos)>>]

peekError(q, t) ==
    LET newPos == [q.curToken.Pos EXCEPT
                      !.Col = q.curToken.Pos.Col + RuneCountInString(q.curToken.Literal)]
        msg == Error("expected next token", newPos, t, q.peekToken.Type)
    IN  [q EXCEPT !.errors = Append(q.errors, msg),
                  !.errorLines = Append(q.errorLines, Sline(q.curToken.Pos))]

\* expectPeek moving on to the next token after reporting, too.
expectPeek_SkipOnError(q, t) ==
    IF peekTokenIs(q, t)
    THEN [p |-> nextToken(q), ok |-> TRUE]
    ELSE [p |-> nextToken(peekError(q, t)), ok |-> FALSE]

\* expectPeek: the struct afterwards and the boolean returned.
expectPeek(q, t) ==
    IF peekTokenIs(q, t)
    THEN [p |-> nextToken(q), ok |-> TRUE]
    ELSE [p |-> peekError(q, t), ok |-> FALSE]

\* noPrefixParseFnError reporting the end of input like any other token.
noPrefixParseFnError_ReportsEOF(q, t) ==
    LET msg == Error("no prefix parse functions", q.curToken.Pos, t, "")
    IN  [q EXCEPT !.errors = Append(q.errors, msg),
                  !.errorLines = Append(q.errorLines, Sline(q.curToken.Pos))]

noPrefixParseFnError(q, t) ==
    IF t # "EOF"
    THEN LET msg == Error("no prefix parse functions", q.curToken.Pos, t, "")
         IN  [q EXCEPT !.errors = Append(q.errors, msg),
                       !.errorLines = Append(q.errorLines, Sline(q.curToken.Pos))]
    ELSE q

-----------------------------------------------------------------------------
(* The AST nodes the parser builds (package ast), as records.              *)

Identifier(tok) == [node |-> "Identifier", Token |-> tok, Value |-> tok.Literal]

NumberLiteral(tok, value) == [node |-> "NumberLiteral", Token |-> tok, Value |-> value]

BooleanLiteral(tok, value) == [node |-> "BooleanLiteral", Token |-> tok, Value |-> value]

StringLiteral(tok) == [node |-> "StringLiteral", Token |-> tok, Value |-> tok.Literal]

NilLiteral(tok) == [node |-> "NilLiteral", Token |-> tok]

PrefixExpression(tok, right) ==
    [node |-> "PrefixExpression", Token |-> tok, Operator |-> tok.Literal, Right |-> right]

InfixExpression(tok, left, right) ==
    [node |-> "InfixExpression", Token |-> tok, Operator |-> tok.Literal,
     Left |-> left, Right |-> right]

PostfixExpression(tok, left) ==
    [node |-> "PostfixExpression", Token |-> tok, Left |-> left, Operator |-> tok.Literal]

ArrayLiteral(tok, members) == [node |-> "ArrayLiteral", Token |-> tok, Members |-> members]

\* Pairs is a Go map keyed by the key expression's identity; the model keeps
\* its entries as a sequence of <<key, value>> in insertion order.  The
\* parser never assigns RBraceToken, IsOrdered or Order.
HashLiteral(tok, pairs) ==
    [node |-> "HashLiteral", Token |-> tok, Pairs |-> pairs,
     RBraceToken |-> ZeroToken, IsOrdered |-> FALSE, Order |-> <<>>]

FunctionLiteral(tok, parameters, body) ==
    [node |-> "FunctionLiteral", Token |-> tok, Name |-> "", Parameters |-> parameters,
     Variadic |-> FALSE, Body |-> body]

CallExpression(tok, function, arguments) ==
    [node |-> "CallExpression", Token |-> tok, Function |-> function,
     Arguments |-> arguments, Variadic |-> FALSE]

IndexExpression(tok, left, index) ==
    [node |-> "IndexExpression", Token |-> tok, Left |-> left, Index |-> index]

MethodCallExpression(tok, object, call) ==
    [node |-> "MethodCallExpression", Token |-> tok, Object |-> object, Call |-> call]

IfExpression(tok, conditions, alternative) ==
    [node |-> "IfExpression", Token |-> tok, Conditions |-> conditions,
     Alternative |-> alternative]

IfConditionExpr(tok, cond, body) ==
    [node |-> "IfConditionExpr", Token |-> tok, Cond |-> cond, Body |-> body]

\* The parser assigns the single Name and Value of a let statement.
LetStatement(tok, name, value) ==
    [node |-> "LetStatement", Token |-> tok, Name |-> name, Value |-> value]

\* The parser assigns ReturnValue and never ReturnValues.
ReturnStatement(tok, value) ==
    [node |-> "ReturnStatement", Token |-> tok, ReturnValue |-> value,
     ReturnValues |-> <<>>]

BlockStatement(tok, statements, rbrace) ==
    [node |-> "BlockStatement", Token |-> tok, Statements |-> statements,
     RBraceToken |-> rbrace]

ExpressionStatement(tok, expression) ==
    [node |-> "ExpressionStatement", Token |-> tok, Expression |-> expression]

Program(statements) == [node |-> "Program", Statements |-> statements]

\* hash.Pairs[key] = value.  A non-nil key is a fresh node and a new entry;
\* the nil key is one key, whose entry is overwritten.
PairsPut(pairs, key, value) ==
    IF key = Nil /\ \E i \in 1..Len(pairs) : pairs[i][1] = Nil
    THEN [i \in 1..Len(pairs) |-> IF pairs[i][1] = Nil THEN <<key, value>> ELSE pairs[i]]
    ELSE Append(pairs, <<key, value>>)

-----------------------------------------------------------------------------
(* The observations of the nodes (package ast): String, Pos and End.       *)
(* A string is the sequence of its characters.  A call that panics (a nil  *)
(* receiver or operand, an index or a slice bound out of range) gives      *)
(* Panic for a string and PanicPos for a position, and so does every call  *)
(* that contains it.                                                       *)

Panic == <<"panic">>

PanicPos == [Line |-> -1, Col |-> -1]

\* The characters of the lexemes of the model.
Chars(lit) ==
    CASE lit = "" -> <<>>
      [] lit = "1.2.3" -> <<"1", ".", "2", ".", "3">>
      [] lit = "true" -> <<"t", "r", "u", "e">>
      [] lit = "false" -> <<"f", "a", "l", "s", "e">>
      [] lit = "nil" -> <<"n", "i", "l">>
      [] lit = "fn" -> <<"f", "n">>
      [] lit = "let" -> <<"l", "e", "t">>
      [] lit = "return" -> <<"r", "e", "t", "u", "r", "n">>
      [] lit = "if" -> <<"i", "f">>
      [] lit = "else" -> <<"e", "l", "s", "e">>
      [] lit = "elif" -> <<"e", "l", "i", "f">>
      [] lit = "**" -> <<"*", "*">>
      [] lit = "==" -> <<"=", "=">>
      [] lit = "!=" -> <<"!", "=">>
      [] lit = "<=" -> <<"<", "=">>
      [] lit = ">=" -> <<">", "=">>
      [] lit = "++" -> <<"+", "+">>
      [] lit = "--" -> <<"-", "-">>
      [] OTHER -> <<lit>>

\* a + b on strings.
Cat(a, b) == IF a = Panic \/ b = Panic THEN Panic ELSE a \o b

RECURSIVE CatAll(_)
CatAll(parts) ==
    IF parts = <<>> THEN <<>> ELSE Cat(Head(parts), CatAll(Tail(parts)))

\* strings.Join(elems, sep)
RECURSIVE Join(_, _)
Join(elems, sep) ==
    IF elems = <<>> THEN <<>>
    ELSE IF Len(elems) = 1 THEN elems[1]
    ELSE CatAll(<<elems[1], sep, Join(Tail(elems), sep)>>)

Reverse(seq) == [i \in 1..Len(seq) |-> seq[Len(seq) + 1 - i]]

\* The Names and Values of a let statement whose Name and Value the parser
\* assigned: one of each, and none where the parser assigned none.
Names(ls) == IF ls.Name = Nil THEN <<>> ELSE <<ls.Name>>

Values(ls) == IF ls.Value = Nil THEN <<>> ELSE <<ls.Value>>

\* node.String().  Ranging over the map of an unordered hash visits the
\* pairs in an order Go leaves open: in the order they were put (~rev), or in
\* the opposite order (rev).
RECURSIVE String(_, _)
String(n, rev) ==
    LET Str(m) == String(m, rev)
        StrAll(ms) == [i \in 1..Len(ms) |-> Str(ms[i])]
        \* BlockStatement.String: each statement, then ";" unless it ends in one
        stmtStr(st) ==
            LET str == Str(st)
            IN  IF str = Panic \/ str = <<>> THEN Panic   \* str[len(str)-1:] of ""
                ELSE IF str[Len(str)] # ";" THEN str \o <<";">>
                ELSE str
        pairStr(pr, sep) == CatAll(<<Str(pr[1]), sep, Str(pr[2])>>)
    IN
    CASE n.node = "nil" -> Panic
      [] n.node = "Program" -> CatAll(StrAll(n.Statements))
      [] n.node = "LetStatement" ->
            LET head == CatAll(<<Chars(n.Token.Literal), <<" ">>,
                                 Join(StrAll(Names(n)), <<",", " ">>)>>)
            IN  IF Len(Values(n)) = 0
                THEN Cat(head, <<";">>)
                ELSE CatAll(<<head, <<" ", "=", " ">>, Join(StrAll(Values(n)), <<",", " ">>)>>)
      [] n.node = "ReturnStatement" ->
            CatAll(<<Chars(n.Token.Literal), <<" ">>,
                     Join(StrAll(n.ReturnValues), <<",", " ">>), <<";">>>>)
      [] n.node = "BlockStatement" ->
            CatAll([i \in 1..Len(n.Statements) |-> stmtStr(n.Statements[i])])
      [] n.node = "ExpressionStatement" ->
            IF n.Expression # Nil THEN Str(n.Expression) ELSE <<>>
      [] n.node = "InfixExpression" ->
            CatAll(<<<<"(">>, Str(n.Left), <<" ">>, Chars(n.Operator), <<" ">>,
                     Str(n.Right), <<")">>>>)
      [] n.node = "PrefixExpression" ->
            CatAll(<<<<"(">>, Chars(n.Operator), Str(n.Right), <<")">>>>)
      [] n.node = "PostfixExpression" ->
            CatAll(<<<<"(">>, Str(n.Left), Chars(n.Operator), <<")">>>>)
      [] n.node \in {"NumberLiteral", "NilLiteral", "BooleanLiteral", "StringLiteral"} ->
            Chars(n.Token.Literal)
      [] n.node = "Identifier" -> Chars(n.Value)
      [] n.node = "FunctionLiteral" ->
            CatAll(<<Chars(n.Token.Literal), <<"(">>,
                     Join(StrAll(n.Parameters), <<",", " ">>),
                     <<")", " ", "{">>, Str(n.Body), <<"}">>>>)
      [] n.node = "ArrayLiteral" ->
            CatAll(<<<<"[">>, Join(StrAll(n.Members), <<",", " ">>), <<"]">>>>)
      [] n.node = "IndexExpression" ->
            CatAll(<<<<"(">>, Str(n.Left), <<"[">>, Str(n.Index), <<"]", ")">>>>)
      [] n.node = "HashLiteral" ->
            LET visited == IF rev THEN Reverse(n.Pairs) ELSE n.Pairs
                pairs == IF n.IsOrdered
                         THEN [i \in 1..Len(n.Order) |-> Panic]  \* the parser sets no Order
                         ELSE [i \in 1..Len(visited) |-> pairStr(visited[i], <<":">>)]
            IN  CatAll(<<<<"{">>, Join(pairs, <<",", " ">>), <<"}">>>>)
      [] n.node = "CallExpression" ->
            CatAll(<<Str(n.Function), <<"(">>, Join(StrAll(n.Arguments), <<",", " ">>),
                     <<")">>>>)
      [] n.node = "MethodCallExpression" ->
            CatAll(<<Str(n.Object), <<".">>, Str(n.Call)>>)
      [] n.node = "IfExpression" ->
            LET conds == [i \in 1..Len(n.Conditions) |->
                            Cat(IF i = 1 THEN <<"i", "f", " ">> ELSE <<"e", "l", "i", "f", " ">>,
                                Str(n.Conditions[i]))]
                alt == IF n.Alternative # Nil
                       THEN CatAll(<<<<" ", "e", "l", "s", "e", " ">>, <<" ", "{", " ">>,
                                     Str(n.Alternative), <<" ", "}">>>>)
                       ELSE <<>>
            IN  Cat(CatAll(conds), alt)
      [] n.node = "IfConditionExpr" ->
            CatAll(<<Str(n.Cond), <<" ", "{", " ">>, Str(n.Body), <<" ", "}">>>>)

\* pos with Col moved right by k.
Shift(pos, k) == IF pos = PanicPos THEN PanicPos ELSE [pos EXCEPT !.Col = pos.Col + k]

\* node.Pos()
Pos(n) ==
    CASE n.node = "nil" -> PanicPos
      [] n.node = "Program" ->
            IF Len(n.Statements) > 0 THEN n.Statements[1].Token.Pos ELSE Position(0, 0)
      [] n.node = "CallExpression" ->
            LET str == String(n.Function, FALSE)
            IN  IF str = Panic THEN PanicPos
                ELSE Position(n.Token.Pos.Line, n.Token.Pos.Col - Len(str))
      [] OTHER -> n.Token.Pos

\* node.End()
RECURSIVE End(_)
End(n) ==
    CASE n.node = "nil" -> PanicPos
      [] n.node = "Program" ->
            IF Len(n.Statements) > 0 THEN End(n.Statements[Len(n.Statements)])
            ELSE Position(0, 0)
      [] n.node = "LetStatement" ->
            IF Len(Values(n)) > 0 THEN End(Values(n)[Len(Values(n))])
            ELSE IF Len(Names(n)) > 0 THEN End(Names(n)[1])
            ELSE PanicPos
      [] n.node = "ReturnStatement" ->
            IF Len(n.ReturnValues) > 0 THEN End(n.ReturnValues[Len(n.ReturnValues)])
            ELSE Shift(n.Token.Pos, Len(n.Token.Literal))
      [] n.node \in {"BlockStatement", "HashLiteral"} ->
            Position(n.RBraceToken.Pos.Line, n.RBraceToken.Pos.Col + 1)
      [] n.node = "ExpressionStatement" -> End(n.Expression)
      [] n.node \in {"InfixExpression", "PrefixExpression"} -> End(n.Right)
      [] n.node = "PostfixExpression" -> Shift(End(n.Left), Len(n.Operator))
      [] n.node \in {"NumberLiteral", "BooleanLiteral", "NilLiteral"} ->
            Shift(n.Token.Pos, RuneCountInString(n.Token.Literal))
      [] n.node \in {"Identifier", "StringLiteral"} ->
            Shift(n.Token.Pos, RuneCountInString(n.Value))
      [] n.node = "FunctionLiteral" -> End(n.Body)
      [] n.node = "ArrayLiteral" ->
            IF Len(n.Members) > 0 THEN End(n.Members[Len(n.Members)]) ELSE n.Token.Pos
      [] n.node = "IndexExpression" -> End(n.Index)
      [] n.node = "CallExpression" ->
            IF Len(n.Arguments) > 0 THEN End(n.Arguments[Len(n.Arguments)])
            ELSE End(n.Function)
      [] n.node = "MethodCallExpression" -> End(n.Call)
      [] n.node = "IfExpression" ->
            IF n.Alternative # Nil THEN End(n.Alternative)
            ELSE IF Len(n.Conditions) > 0 THEN End(n.Conditions[Len(n.Conditions)])
            ELSE PanicPos
      [] n.node = "IfConditionExpr" -> End(n.Body)

\* The nodes directly below a node, the absent ones left out.
Children(n) ==
    LET present(ms) == {ms[i] : i \in 1..Len(ms)} \ {Nil}
    IN
    CASE n.node \in {"Program", "BlockStatement"} -> present(n.Statements)
      [] n.node = "LetStatement" -> present(<<n.Name, n.Value>>)
      [] n.node = "ReturnStatement" -> present(<<n.ReturnValue>>)
      [] n.node = "ExpressionStatement" -> present(<<n.Expression>>)
      [] n.node = "InfixExpression" -> present(<<n.Left, n.Right>>)
      [] n.node = "PrefixExpression" -> present(<<n.Right>>)
      [] n.node = "PostfixExpression" -> present(<<n.Left>>)
      [] n.node = "FunctionLiteral" -> present(n.Parameters) \cup present(<<n.Body>>)
      [] n.node = "ArrayLiteral" -> present(n.Members)
      [] n.node = "IndexExpression" -> present(<<n.Left, n.Index>>)
      [] n.node = "HashLiteral" ->
            UNION {present(n.Pairs[i]) : i \in 1..Len(n.Pairs)}
      [] n.node = "CallExpression" -> present(<<n.Function>>) \cup present(n.Arguments)
      [] n.node = "MethodCallExpression" -> present(<<n.Object, n.Call>>)
      [] n.node = "IfExpression" -> present(n.Conditions) \cup present(<<n.Alternative>>)
      [] n.node = "IfConditionExpr" -> present(<<n.Cond, n.Body>>)
      [] OTHER -> {}

\* The nodes of the tree below and including n.
RECURSIVE Nodes(_)
Nodes(n) == {n} \cup UNION {Nodes(c) : c \in Children(n)}

-----------------------------------------------------------------------------
(* The parselets that call no other parse function.  Each gives the Parser *)
(* struct afterwards and the node returned.                                *)

\* The most digits of a number the model reads.
MaxDigits == 3

Digits == {"1", "2", "3"}

\* The numerals: the words of one to MaxDigits digits.
DigitWords == UNION {[1..n -> Digits] : n \in 1..MaxDigits}

\* The string whose characters are chars.
RECURSIVE Word(_)
Word(chars) == IF chars = <<>> THEN "" ELSE Head(chars) \o Word(Tail(chars))

\* The number a numeral denotes.
RECURSIVE Decimal(_)
Decimal(w) ==
    IF w = <<>> THEN 0
    ELSE 10 * Decimal(SubSeq(w, 1, Len(w) - 1))
         + (CASE w[Len(w)] = "1" -> 1 [] w[Len(w)] = "2" -> 2 [] w[Len(w)] = "3" -> 3)

\* strconv.ParseFloat on the number lexemes of the model: the value of a
\* numeral, and err for anything else (1.2.3).
ParseFloat(lit) ==
    IF \E w \in DigitWords : Word(w) = lit
    THEN [value |-> Decimal(CHOOSE w \in DigitWords : Word(w) = lit), err |-> FALSE]
    ELSE [value |-> 0, err |-> TRUE]

parseInfixIllegalExpression(q) ==
    LET msg == Error("Illegal token found", q.curToken.Pos, q.curToken.Literal, "")
    IN  [p |-> [q EXCEPT !.errors = Append(q.errors, msg),
                         !.errorLines = Append(q.errorLines, Sline(q.curToken.Pos))],
         node |-> Nil]

parseNumber(q) ==
    LET f == ParseFloat(q.curToken.Literal)
        msg == Error("could not parse as float", q.curToken.Pos, q.curToken.Literal, "")
    IN  IF f.err
        THEN [p |-> [q EXCEPT !.errors = Append(q.errors, msg),
                              !.errorLines = Append(q.errorLines, Sline(q.curToken.Pos))],
              node |-> Nil]
        ELSE [p |-> q, node |-> NumberLiteral(q.curToken, f.value)]

parseIdentifier(q) == [p |-> q, node |-> Identifier(q.curToken)]

parseBooleanLiteral(q) ==
    [p |-> q, node |-> BooleanLiteral(q.curToken, curTokenIs(q, "TRUE"))]

parseStringLiteral(q) == [p |-> q, node |-> StringLiteral(q.curToken)]

parseNilExpression(q) == [p |-> q, node |-> NilLiteral(q.curToken)]

parsePostfixExpression(q, left) == [p |-> q, node |-> PostfixExpression(q.curToken, left)]

\* The prefix parselets above, by name.
LeafPrefixFns ==
    {"parseInfixIllegalExpression", "parseNumber", "parseIdentifier",
     "parseBooleanLiteral", "parseStringLiteral", "parseNilExpression"}

\* prefix(), for a parselet of LeafPrefixFns.
CallLeafPrefix(fn, q) ==
    CASE fn = "parseInfixIllegalExpression" -> parseInfixIllegalExpression(q)
      [] fn = "parseNumber" -> parseNumber(q)
      [] fn = "parseIdentifier" -> parseIdentifier(q)
      [] fn = "parseBooleanLiteral" -> parseBooleanLiteral(q)
      [] fn = "parseStringLiteral" -> parseStringLiteral(q)
      [] fn = "parseNilExpression" -> parseNilExpression(q)

-----------------------------------------------------------------------------
(* The call stack.                                                         *)

\* A frame: the function, the place it resumes at, its argument, its locals,
\* and (history) whether its own code, or that of a helper it called, has
\* recorded an error.
Enter(fn, arg) == [fn |-> fn, pc |-> "start", arg |-> arg, loc |-> Nil, erred |-> FALSE]

Top == stack[Len(stack)]

Callers == SubSeq(stack, 1, Len(stack) - 1)

\* The function fn is running (its frame is innermost).
Running(fn) == Len(stack) > 0 /\ Top.fn = fn

\* This step records an error.
Recorded == Len(p'.errors) > Len(p.errors)

\* The functions that parse a part of their caller's construct: the members
\* of an array or the arguments of a call, the parameters of a function, the
\* conditions of an if.
Helpers ==
    {"parseExpressionList", "parseFunctionParameters",
     "parseConditionalExpressions", "parseConditionalExpression"}

\* The running function goes on at pc with locals loc.
Goto(pc, loc) ==
    /\ stack' = Callers \o <<[Top EXCEPT !.pc = pc, !.loc = loc,
                                         !.erred = @ \/ Recorded]>>
    /\ ret' = ret
    /\ steps' = steps + 1

\* The running function calls fn(arg) and resumes at pc with locals loc.
Call(pc, loc, fn, arg) ==
    /\ stack' = Callers \o <<[Top EXCEPT !.pc = pc, !.loc = loc,
                                         !.erred = @ \/ Recorded],
                             Enter(fn, arg)>>
    /\ ret' = ret
    /\ steps' = steps + 1

\* `return fn(arg)`: the running function's result is that of fn(arg).
TailCall(fn, arg) ==
    /\ stack' = Callers \o <<Enter(fn, arg)>>
    /\ ret' = ret
    /\ steps' = steps + 1

\* The running function returns value.
Return(value) ==
    /\ stack' = IF Callers = <<>> THEN <<>>
                ELSE [Callers EXCEPT ![Len(Callers)].erred =
                         @ \/ (Top.fn \in Helpers /\ (Top.erred \/ Recorded))]
    /\ ret' = value
    /\ steps' = steps + 1

-----------------------------------------------------------------------------
(* Statements.                                                             *)

\* ParseProgram with the loop testing the peek token for EOF.
ParseProgram_PeekEOF ==
    /\ Running("ParseProgram")
    /\ LET loop(program, q) ==
               IF q.peekToken.Type # "EOF"
               THEN /\ p' = q
                    /\ Call("afterStatement", program, "parseStatement", Nil)
               ELSE /\ p' = q
                    /\ Return(program)
       IN  CASE Top.pc = "start" -> loop(Program(<<>>), p)
             [] Top.pc = "afterStatement" ->
                    LET stmt == ret
                        program == IF stmt # Nil
                                   THEN [Top.loc EXCEPT !.Statements = Append(@, stmt)]
                                   ELSE Top.loc
                    IN  loop(program, nextToken(p))

ParseProgram ==
    /\ Running("ParseProgram")
    /\ LET loop(program, q) ==
               IF q.curToken.Type # "EOF"
               THEN /\ p' = q
                    /\ Call("afterStatement", program, "parseStatement", Nil)
               ELSE /\ p' = q
                    /\ Return(program)
       IN  CASE Top.pc = "start" -> loop(Program(<<>>), p)
             [] Top.pc = "afterStatement" ->
                    LET stmt == ret
                        program == IF stmt # Nil
                                   THEN [Top.loc EXCEPT !.Statements = Append(@, stmt)]
                                   ELSE Top.loc
                    IN  loop(program, nextToken(p))

parseStatement ==
    /\ Running("parseStatement")
    /\ p' = p
    /\ CASE p.curToken.Type = "LET" -> TailCall("parseLetStatement", Nil)
         [] p.curToken.Type = "RETURN" -> TailCall("parseReturnStatement", Nil)
         [] p.curToken.Type = "LBRACE" -> TailCall("parseBlockStatement", Nil)
         [] OTHER -> TailCall("parseExpressionStatement", Nil)

parseLetStatement ==
    /\ Running("parseLetStatement")
    /\ CASE Top.pc = "start" ->
                LET e1 == expectPeek(p, "IDENTIFIER")
                    name == IF e1.ok THEN Identifier(e1.p.curToken) ELSE Nil
                    stmt == LetStatement(p.curToken, name, Nil)
                    e2 == expectPeek(e1.p, "ASSIGN")
                IN  IF e2.ok
                    THEN /\ p' = nextToken(e2.p)
                         /\ Call("afterValue", stmt, "parseExpressionStatement", Nil)
                    ELSE /\ p' = e2.p
                         /\ Return(stmt)
         [] Top.pc = "afterValue" ->
                /\ p' = p
                /\ Return([Top.loc EXCEPT !.Value = ret.Expression])

parseReturnStatement ==
    /\ Running("parseReturnStatement")
    /\ CASE Top.pc = "start" ->
                LET stmt == ReturnStatement(p.curToken, Nil)
                IN  IF peekTokenIs(p, "SEMICOLON")
                    THEN /\ p' = nextToken(p)
                         /\ Return(stmt)
                    ELSE IF peekTokenIs(p, "RBRACE")
                    THEN /\ p' = p
                         /\ Return(stmt)
                    ELSE /\ p' = nextToken(p)
                         /\ Call("afterValue", stmt, "parseExpressionStatement", Nil)
         [] Top.pc = "afterValue" ->
                /\ p' = p
                /\ Return([Top.loc EXCEPT !.ReturnValue = ret.Expression])

\* parseBlockStatement without the break at a peek token of EOF.
parseBlockStatement_NoBreak ==
    /\ Running("parseBlockStatement")
    /\ LET loop(blockStmt, q) ==
               IF ~curTokenIs(q, "RBRACE")
               THEN /\ p' = q
                    /\ Call("afterStatement", blockStmt, "parseStatement", Nil)
               ELSE /\ p' = q
                    /\ Return([blockStmt EXCEPT !.RBraceToken = q.curToken])
       IN  CASE Top.pc = "start" ->
                    loop(BlockStatement(p.curToken, <<>>, ZeroToken), nextToken(p))
             [] Top.pc = "afterStatement" ->
                    LET stmt == ret
                        blockStmt == IF stmt # Nil
                                     THEN [Top.loc EXCEPT !.Statements = Append(@, stmt)]
                                     ELSE Top.loc
                    IN  loop(blockStmt, nextToken(p))

parseBlockStatement ==
    /\ Running("parseBlockStatement")
    /\ LET loop(blockStmt, q) ==
               IF ~curTokenIs(q, "RBRACE")
               THEN /\ p' = q
                    /\ Call("afterStatement", blockStmt, "parseStatement", Nil)
               ELSE /\ p' = q
                    /\ Return([blockStmt EXCEPT !.RBraceToken = q.curToken])
       IN  CASE Top.pc = "start" ->
                    loop(BlockStatement(p.curToken, <<>>, ZeroToken), nextToken(p))
             [] Top.pc = "afterStatement" ->
                    LET stmt == ret
                        blockStmt == IF stmt # Nil
                                     THEN [Top.loc EXCEPT !.Statements = Append(@, stmt)]
                                     ELSE Top.loc
                    IN  IF peekTokenIs(p, "EOF")
                        THEN /\ p' = p
                             /\ Return([blockStmt EXCEPT !.RBraceToken = p.curToken])
                        ELSE loop(blockStmt, nextToken(p))

parseExpressionStatement ==
    /\ Running("parseExpressionStatement")
    /\ CASE Top.pc = "start" ->
                /\ p' = p
                /\ Call("afterExpression", ExpressionStatement(p.curToken, Nil),
                        "parseExpression", LOWEST)
         [] Top.pc = "afterExpression" ->
                /\ p' = IF peekTokenIs(p, "SEMICOLON") THEN nextToken(p) ELSE p
                /\ Return([Top.loc EXCEPT !.Expression = ret])

-----------------------------------------------------------------------------
(* Expressions.                                                            *)

\* Top.arg is the precedence parameter; Top.loc is leftExp.
parseExpression ==
    /\ Running("parseExpression")
    /\ LET loop(leftExp, q) ==
               IF Top.arg < peekPrecedence(q)
               THEN IF q.peekToken.Type \notin DOMAIN infixParseFns
                    THEN /\ p' = q
                         /\ Return(leftExp)
                    ELSE LET infix == infixParseFns[q.peekToken.Type]
                             q1 == nextToken(q)
                         IN  IF infix = "parsePostfixExpression"
                             THEN LET r == parsePostfixExpression(q1, leftExp)
                                  IN  /\ p' = r.p
                                      /\ Goto("loop", r.node)
                             ELSE /\ p' = q1
                                  /\ Call("afterInfix", leftExp, infix, leftExp)
               ELSE /\ p' = q
                    /\ Return(leftExp)
       IN  CASE Top.pc = "start" ->
                    IF p.curToken.Type \notin DOMAIN prefixParseFns
                    THEN /\ p' = noPrefixParseFnError(p, p.curToken.Type)
                         /\ Return(Nil)
                    ELSE LET prefix == prefixParseFns[p.curToken.Type]
                         IN  IF prefix \in LeafPrefixFns
                             THEN LET r == CallLeafPrefix(prefix, p)
                                  IN  loop(r.node, r.p)
                             ELSE /\ p' = p
                                  /\ Call("afterPrefix", Nil, prefix, Nil)
             [] Top.pc \in {"afterPrefix", "afterInfix"} -> loop(ret, p)
             [] Top.pc = "loop" -> loop(Top.loc, p)

\* parsePrefixExpression parsing its operand at LOWEST.
parsePrefixExpression_Lowest ==
    /\ Running("parsePrefixExpression")
    /\ CASE Top.pc = "start" ->
                /\ p' = nextToken(p)
                /\ Call("afterRight", PrefixExpression(p.curToken, Nil),
                        "parseExpression", LOWEST)
         [] Top.pc = "afterRight" ->
                /\ p' = p
                /\ Return([Top.loc EXCEPT !.Right = ret])

parsePrefixExpression ==
    /\ Running("parsePrefixExpression")
    /\ CASE Top.pc = "start" ->
                /\ p' = nextToken(p)
                /\ Call("afterRight", PrefixExpression(p.curToken, Nil),
                        "parseExpression", PREFIX)
         [] Top.pc = "afterRight" ->
                /\ p' = p
                /\ Return([Top.loc EXCEPT !.Right = ret])

\* parseInfixExpression without the special case of '**'.
parseInfixExpression_NoPower ==
    /\ Running("parseInfixExpression")
    /\ CASE Top.pc = "start" ->
                LET expression == InfixExpression(p.curToken, Top.arg, Nil)
                    precedence == curPrecedence(p)
                IN  /\ p' = nextToken(p)
                    /\ Call("afterRight", expression, "parseExpression", precedence)
         [] Top.pc = "afterRight" ->
                /\ p' = p
                /\ Return([Top.loc EXCEPT !.Right = ret])

\* parseInfixExpression lowering the precedence for every operator.
parseInfixExpression_AllLowered ==
    /\ Running("parseInfixExpression")
    /\ CASE Top.pc = "start" ->
                LET expression == InfixExpression(p.curToken, Top.arg, Nil)
                    precedence == curPrecedence(p) - 1
                IN  /\ p' = nextToken(p)
                    /\ Call("afterRight", expression, "parseExpression", precedence)
         [] Top.pc = "afterRight" ->
                /\ p' = p
                /\ Return([Top.loc EXCEPT !.Right = ret])

\* Top.arg is the parameter left.
parseInfixExpression ==
    /\ Running("parseInfixExpression")
    /\ CASE Top.pc = "start" ->
                LET expression == InfixExpression(p.curToken, Top.arg, Nil)
                    precedence == IF curTokenIs(p, "POWER")
                                  THEN curPrecedence(p) - 1
                                  ELSE curPrecedence(p)
                IN  /\ p' = nextToken(p)
                    /\ Call("afterRight", expression, "parseExpression", precedence)
         [] Top.pc = "afterRight" ->
                /\ p' = p
                /\ Return([Top.loc EXCEPT !.Right = ret])

\* parseGroupedExpression returning at the closing parenthesis without
\* moving onto it.
parseGroupedExpression_NoRParen ==
    /\ Running("parseGroupedExpression")
    /\ CASE Top.pc = "start" ->
                /\ p' = nextToken(p)
                /\ Call("afterExp", Nil, "parseExpression", LOWEST)
         [] Top.pc = "afterExp" ->
                LET exp == ret
                    e == expectPeek(p, "RPAREN")
                IN  /\ p' = IF e.ok THEN p ELSE e.p
                    /\ Return(IF ~e.ok THEN Nil ELSE exp)

parseGroupedExpression ==
    /\ Running("parseGroupedExpression")
    /\ CASE Top.pc = "start" ->
                /\ p' = nextToken(p)
                /\ Call("afterExp", Nil, "parseExpression", LOWEST)
         [] Top.pc = "afterExp" ->
                LET exp == ret
                    e == expectPeek(p, "RPAREN")
                IN  /\ p' = e.p
                    /\ Return(IF ~e.ok THEN Nil ELSE exp)

parseArrayLiteral ==
    /\ Running("parseArrayLiteral")
    /\ p' = p
    /\ CASE Top.pc = "start" ->
                Call("afterMembers", ArrayLiteral(p.curToken, <<>>),
                     "parseExpressionList", "RBRACKET")
         [] Top.pc = "afterMembers" ->
                Return([Top.loc EXCEPT !.Members = ret])

\* Top.arg is the parameter end; Top.loc is list.  A nil slice is <<>>.
parseExpressionList ==
    /\ Running("parseExpressionList")
    /\ CASE Top.pc = "start" ->
                IF peekTokenIs(p, Top.arg)
                THEN /\ p' = nextToken(p)
                     /\ Return(<<>>)
                ELSE /\ p' = nextToken(p)
                     /\ Call("afterElement", <<>>, "parseExpression", LOWEST)
         [] Top.pc = "afterElement" ->
                LET list == Append(Top.loc, ret)
                IN  IF peekTokenIs(p, "COMMA")
                    THEN /\ p' = nextToken(nextToken(p))
                         /\ Call("afterElement", list, "parseExpression", LOWEST)
                    ELSE LET e == expectPeek(p, Top.arg)
                         IN  /\ p' = e.p
                             /\ Return(IF ~e.ok THEN <<>> ELSE list)

\* Top.loc is [hash, key].
parseHashLiteral ==
    /\ Running("parseHashLiteral")
    /\ LET loop(hash, q) ==
               IF ~peekTokenIs(q, "RBRACE")
               THEN /\ p' = nextToken(q)
                    /\ Call("afterKey", [hash |-> hash, key |-> Nil],
                            "parseExpression", LOWEST)
               ELSE LET e == expectPeek(q, "RBRACE")
                    IN  /\ p' = e.p
                        /\ Return(IF ~e.ok THEN Nil ELSE hash)
       IN  CASE Top.pc = "start" -> loop(HashLiteral(p.curToken, <<>>), p)
             [] Top.pc = "afterKey" ->
                    LET key == ret
                        e == expectPeek(p, "COLON")
                    IN  IF ~e.ok
                        THEN /\ p' = e.p
                             /\ Return(Nil)
                        ELSE /\ p' = nextToken(e.p)
                             /\ Call("afterValue", [Top.loc EXCEPT !.key = key],
                                     "parseExpression", LOWEST)
             [] Top.pc = "afterValue" ->
                    LET value == ret
                        hash == [Top.loc.hash EXCEPT
                                    !.Pairs = PairsPut(@, Top.loc.key, value)]
                    IN  IF ~peekTokenIs(p, "RBRACE")
                        THEN LET e == expectPeek(p, "COMMA")
                             IN  IF ~e.ok
                                 THEN /\ p' = e.p
                                      /\ Return(Nil)
                                 ELSE loop(hash, e.p)
                        ELSE loop(hash, p)

parseFunctionLiteral ==
    /\ Running("parseFunctionLiteral")
    /\ CASE Top.pc = "start" ->
                LET lit == FunctionLiteral(p.curToken, <<>>, Nil)
                    e == expectPeek(p, "LPAREN")
                IN  IF ~e.ok
                    THEN /\ p' = e.p
                         /\ Return(Nil)
                    ELSE /\ p' = e.p
                         /\ Call("afterParameters", lit, "parseFunctionParameters", Nil)
         [] Top.pc = "afterParameters" ->
                LET lit == [Top.loc EXCEPT !.Parameters = ret]
                    e == expectPeek(p, "LBRACE")
                IN  IF ~e.ok
                    THEN /\ p' = e.p
                         /\ Return(Nil)
                    ELSE /\ p' = e.p
                         /\ Call("afterBody", lit, "parseBlockStatement", Nil)
         [] Top.pc = "afterBody" ->
                /\ p' = p
                /\ Return([Top.loc EXCEPT !.Body = ret])

\* Top.loc is identifiers.  A nil slice is <<>>.
parseFunctionParameters ==
    /\ Running("parseFunctionParameters")
    /\ LET loop(identifiers, q) ==
               IF peekTokenIs(q, "COMMA")
               THEN LET q2 == nextToken(nextToken(q))
                        ident == Identifier(q2.curToken)
                    IN  /\ p' = q2
                        /\ Goto("loop", Append(identifiers, ident))
               ELSE LET e == expectPeek(q, "RPAREN")
                    IN  /\ p' = e.p
                        /\ Return(IF ~e.ok THEN <<>> ELSE identifiers)
       IN  CASE Top.pc = "start" ->
                    IF peekTokenIs(p, "RPAREN")
                    THEN /\ p' = nextToken(p)
                         /\ Return(<<>>)
                    ELSE LET q1 == nextToken(p)
                             ident == Identifier(q1.curToken)
                         IN  loop(<<ident>>, q1)
             [] Top.pc = "loop" -> loop(Top.loc, p)

\* Top.arg is the parameter function.
parseCallExpression ==
    /\ Running("parseCallExpression")
    /\ p' = p
    /\ CASE Top.pc = "start" ->
                Call("afterArguments", CallExpression(p.curToken, Top.arg, <<>>),
                     "parseExpressionList", "RPAREN")
         [] Top.pc = "afterArguments" ->
                Return([Top.loc EXCEPT !.Arguments = ret])

\* Top.arg is the parameter left.
parseIndexExpression ==
    /\ Running("parseIndexExpression")
    /\ CASE Top.pc = "start" ->
                /\ p' = nextToken(p)
                /\ Call("afterIndex", IndexExpression(p.curToken, Top.arg, Nil),
                        "parseExpression", LOWEST)
         [] Top.pc = "afterIndex" ->
                LET exp == [Top.loc EXCEPT !.Index = ret]
                    e == expectPeek(p, "RBRACKET")
                IN  /\ p' = e.p
                    /\ Return(IF ~e.ok THEN Nil ELSE exp)

\* parseConditionalExpressions(ie) returns the conditions and assigns
\* ie.Alternative through the pointer: it hands back both.
parseIfExpression ==
    /\ Running("parseIfExpression")
    /\ p' = p
    /\ CASE Top.pc = "start" ->
                Call("afterConditions", IfExpression(p.curToken, <<>>, Nil),
                     "parseConditionalExpressions", Nil)
         [] Top.pc = "afterConditions" ->
                Return([Top.loc EXCEPT !.Conditions = ret.ic,
                                       !.Alternative = ret.Alternative])

\* Top.loc is ic.  A nil slice is <<>>.
parseConditionalExpressions ==
    /\ Running("parseConditionalExpressions")
    /\ LET loop(ic, q) ==
               IF peekTokenIs(q, "ELSE")
               THEN LET q1 == nextToken(q)
                    IN  IF ~peekTokenIs(q1, "IF")
                        THEN IF peekTokenIs(q1, "LBRACE")
                             THEN /\ p' = nextToken(q1)
                                  /\ Call("afterAlternative", ic, "parseBlockStatement", Nil)
                             ELSE LET msg == Error("'else' part must be followed by a '{'.",
                                                   q1.curToken.Pos, "", "")
                                  IN  /\ p' = [q1 EXCEPT
                                                 !.errors = Append(q1.errors, msg),
                                                 !.errorLines = Append(q1.errorLines,
                                                                       Sline(q1.curToken.Pos))]
                                      /\ Return([ic |-> <<>>, Alternative |-> Nil])
                        ELSE /\ p' = nextToken(q1)
                             /\ Call("afterCondition", ic, "parseConditionalExpression", Nil)
               ELSE /\ p' = q
                    /\ Return([ic |-> ic, Alternative |-> Nil])
       IN  CASE Top.pc = "start" ->
                    /\ p' = p
                    /\ Call("afterCondition", <<>>, "parseConditionalExpression", Nil)
             [] Top.pc = "afterCondition" -> loop(Append(Top.loc, ret), p)
             [] Top.pc = "afterAlternative" ->
                    /\ p' = p
                    /\ Return([ic |-> Top.loc, Alternative |-> ret])

\* parseConditionalExpression reporting the missing `{` and parsing a body
\* all the same.
parseConditionalExpression_ParsesBody ==
    /\ Running("parseConditionalExpression")
    /\ CASE Top.pc = "start" ->
                /\ p' = nextToken(p)
                /\ Call("afterCond", IfConditionExpr(p.curToken, Nil, Nil),
                        "parseExpressionStatement", Nil)
         [] Top.pc = "afterCond" ->
                LET ic == [Top.loc EXCEPT !.Cond = ret.Expression]
                    msg == Error("'if' expression must be followed by a '{'.",
                                 p.curToken.Pos, "", "")
                    q == IF ~peekTokenIs(p, "LBRACE")
                         THEN [p EXCEPT
                                 !.errors = Append(p.errors, msg),
                                 !.errorLines = Append(p.errorLines, Sline(p.curToken.Pos))]
                         ELSE p
                IN  /\ p' = nextToken(q)
                    /\ Call("afterBody", ic, "parseBlockStatement", Nil)
         [] Top.pc = "afterBody" ->
                /\ p' = p
                /\ Return([Top.loc EXCEPT !.Body = ret])

parseConditionalExpression ==
    /\ Running("parseConditionalExpression")
    /\ CASE Top.pc = "start" ->
                /\ p' = nextToken(p)
                /\ Call("afterCond", IfConditionExpr(p.curToken, Nil, Nil),
                        "parseExpressionStatement", Nil)
         [] Top.pc = "afterCond" ->
                LET ic == [Top.loc EXCEPT !.Cond = ret.Expression]
                    msg == Error("'if' expression must be followed by a '{'.",
                                 p.curToken.Pos, "", "")
                IN  IF ~peekTokenIs(p, "LBRACE")
                    THEN /\ p' = [p EXCEPT
                                    !.errors = Append(p.errors, msg),
                                    !.errorLines = Append(p.errorLines, Sline(p.curToken.Pos))]
                         /\ Return(Nil)
                    ELSE /\ p' = nextToken(p)
                         /\ Call("afterBody", ic, "parseBlockStatement", Nil)
         [] Top.pc = "afterBody" ->
                /\ p' = p
                /\ Return([Top.loc EXCEPT !.Body = ret])

\* parseMethodCallExpression parsing the right-hand side at LOWEST.
parseMethodCallExpression_Lowest ==
    /\ Running("parseMethodCallExpression")
    /\ CASE Top.pc = "start" ->
                LET methodCall == MethodCallExpression(p.curToken, Top.arg, Nil)
                    q1 == nextToken(p)
                    name == parseIdentifier(q1).node
                IN  IF ~peekTokenIs(q1, "LPAREN")
                    THEN /\ p' = q1
                         /\ Call("afterCall", methodCall, "parseExpression", LOWEST)
                    ELSE /\ p' = nextToken(q1)
                         /\ Call("afterCall", methodCall, "parseCallExpression", name)
         [] Top.pc = "afterCall" ->
                /\ p' = p
                /\ Return([Top.loc EXCEPT !.Call = ret])

\* Top.arg is the parameter obj.
parseMethodCallExpression ==
    /\ Running("parseMethodCallExpression")
    /\ CASE Top.pc = "start" ->
                LET methodCall == MethodCallExpression(p.curToken, Top.arg, Nil)
                    q1 == nextToken(p)
                    name == parseIdentifier(q1).node
                IN  IF ~peekTokenIs(q1, "LPAREN")
                    THEN /\ p' = q1
                         /\ Call("afterCall", methodCall, "parseExpression", CALL)
                    ELSE /\ p' = nextToken(q1)
                         /\ Call("afterCall", methodCall, "parseCallExpression", name)
         [] Top.pc = "afterCall" ->
                /\ p' = p
                /\ Return([Top.loc EXCEPT !.Call = ret])

-----------------------------------------------------------------------------
(* The inputs: source texts, each a sequence of lexemes.                   *)

\* The longest text of ShortTexts.
MaxLen == 2

\* One lexeme of every kind the parser tells apart.
Lexemes ==
    {"@", "1", "2", "3", "1.2.3", "s", "a", "b", "c", "true", "false", "nil", "fn",
     "let", "return", "if", "else", "{", "}", "(", ")", "[", "]", ",", ":", ";", "=",
     ".", "+", "-", "*", "/", "%", "**", "!", "==", "!=", "<", "<=", ">", ">=",
     "++", "--"}

\* The lexemes of the binary operators.
BinaryOperators == {"+", "-", "*", "/", "%", "**", "==", "!=", "<", "<=", ">", ">="}

\* Every text of at most MaxLen lexemes.
ShortTexts == UNION {[1..n -> Lexemes] : n \in 0..MaxLen}

\* Programs that between them use every form the parser knows.
Programs ==
    { <<"let", "a", "=", "1", ";">>,
      <<"let", "a", "=", "{", "a", ":", "1", ",", "b", ":", "2", "}">>,
      <<"return", "a", "+", "b", ";">>,
      <<"{", "a", ";", "return", "}">>,
      <<"fn", "(", "a", ",", "b", ")", "{", "return", "a", ";", "}">>,
      <<"a", "(", "b", ",", "1", ")">>,
      <<"a", "[", "1", "]">>,
      <<"[", "1", ",", "2", "]">>,
      <<"a", ".", "b", "(", "1", ")">>,
      <<"(", "a", "+", "b", ")", "*", "c">>,
      <<"if", "a", "{", "b", "}", "else", "if", "c", "{", "a", "}", "else", "{", "b", "}">>,
      <<"if", "(", "a", "<", "b", ")", "{", "a", "}", "else", "{", "b", "}">>,
      <<"-", "a", "++">>,
      <<"!", "true", "==", "false">>,
      <<"a", "--", ";", "nil", ";", "s">> }

\* A program with one lexeme replaced, one lexeme removed, or cut short.
Replaced(text) == {[text EXCEPT ![i] = x] : i \in 1..Len(text), x \in Lexemes}

Removed(text) ==
    {SubSeq(text, 1, i - 1) \o SubSeq(text, i + 1, Len(text)) : i \in 1..Len(text)}

CutShort(text) == {SubSeq(text, 1, n) : n \in 0..Len(text)}

Damaged == UNION {Replaced(text) \cup Removed(text) \cup CutShort(text) : text \in Programs}

\* The lexemes that are an operand by themselves.
Operands == {"1", "2", "3", "s", "a", "b", "c", "true", "false", "nil"}

\* Three operands: identifiers, numbers, and a string, a boolean and nil.
OperandTriples == {<<"a", "b", "c">>, <<"3", "2", "3">>, <<"s", "true", "nil">>}

\* x op1 y op2 z, for every two binary operators.
Chains ==
    {<<t[1], op1, t[2], op2, t[3]>> :
        t \in OperandTriples, op1 \in BinaryOperators, op2 \in BinaryOperators}

\* x.b op z, for every binary operator.
DotChains ==
    {<<t[1], ".", "b", op, t[3]>> : t \in OperandTriples, op \in BinaryOperators}

\* ( x op1 y ) op2 z, for every two binary operators.
GroupChains ==
    {<<"(", t[1], op1, t[2], ")", op2, t[3]>> :
        t \in OperandTriples \cup {<<"1", "2", "3">>},
        op1 \in BinaryOperators, op2 \in BinaryOperators}

\* The lexemes of the prefix operators.
PrefixOperators == {"-", "+", "!"}

\* u x op z, for every prefix operator u and binary operator op.
PrefixChains ==
    {<<u, t[1], op, t[3]>> :
        u \in PrefixOperators, t \in OperandTriples, op \in BinaryOperators}

\* u x ++, u x --, u x ( y ), u x [ y ] and u x . b, for every prefix
\* operator u.
PrefixPostfixes ==
    UNION {{<<u, t[1], "++">>, <<u, t[1], "--">>, <<u, t[1], "(", t[2], ")">>,
            <<u, t[1], "[", t[2], "]">>, <<u, t[1], ".", "b">>} :
           u \in PrefixOperators, t \in OperandTriples}

Texts ==
    ShortTexts \cup Programs \cup Damaged \cup Chains \cup DotChains \cup GroupChains
        \cup PrefixChains \cup PrefixPostfixes

-----------------------------------------------------------------------------
(* The specification.                                                      *)

\* NewParser(l): empty error lists, and the window filled by two nextToken.
NewParser(l) ==
    nextToken(nextToken([l |-> l, errors |-> <<>>, errorLines |-> <<>>,
                         curToken |-> ZeroToken, peekToken |-> ZeroToken]))

\* A fresh parser on some text, about to run ParseProgram.
Init ==
    /\ \E text \in Texts : p = NewParser(Lexer(text))
    /\ stack = <<Enter("ParseProgram", Nil)>>
    /\ ret = Nil
    /\ steps = 0

Next ==
    \/ ParseProgram
    \/ parseStatement
    \/ parseLetStatement
    \/ parseReturnStatement
    \/ parseBlockStatement
    \/ parseExpressionStatement
    \/ parseExpression
    \/ parsePrefixExpression
    \/ parseInfixExpression
    \/ parseGroupedExpression
    \/ parseArrayLiteral
    \/ parseExpressionList
    \/ parseHashLiteral
    \/ parseFunctionLiteral
    \/ parseFunctionParameters
    \/ parseCallExpression
    \/ parseIndexExpression
    \/ parseIfExpression
    \/ parseConditionalExpressions
    \/ parseConditionalExpression
    \/ parseMethodCallExpression

Spec == Init /\ [][Next]_vars

\* ParseProgram has returned; ret is the Program.
Done == stack = <<>>

\* The lexemes of the text being parsed.
Source == [i \in 1..Len(p.l.input) |-> p.l.input[i].Literal]

-----------------------------------------------------------------------------
(* Parsing a rendering again: the Program's String() is given to a lexer   *)
(* and a fresh parser.  The lexer reads characters: blanks separate, a run *)
(* of letters and digits that starts with a letter is one word, a run of   *)
(* digits is one number, and the longest operator is taken.  A word is the *)
(* lexeme of the model it spells (a keyword, or an operand with the kind   *)
(* it has in the source texts), and an identifier otherwise.               *)

Letters == {"a", "b", "c", "e", "f", "i", "l", "n", "r", "s", "t", "u"}

\* The operators of two characters.
TwoCharOperators == {"**", "==", "!=", "<=", ">=", "++", "--"}

\* The index after the run of characters of set cs that starts at i.
RECURSIVE RunEnd(_, _, _)
RunEnd(chars, i, cs) ==
    IF i <= Len(chars) /\ chars[i] \in cs THEN RunEnd(chars, i + 1, cs) ELSE i

\* The tokens of chars from index i on; a token's column is the index of its
\* first character.
RECURSIVE ScanFrom(_, _)
ScanFrom(chars, i) ==
    IF i > Len(chars) THEN <<>>
    ELSE IF chars[i] = " " THEN ScanFrom(chars, i + 1)
    ELSE LET j == IF chars[i] \in Letters THEN RunEnd(chars, i, Letters \cup Digits)
                  ELSE IF chars[i] \in Digits THEN RunEnd(chars, i, Digits)
                  ELSE IF /\ i < Len(chars)
                          /\ Word(SubSeq(chars, i, i + 1)) \in TwoCharOperators
                       THEN i + 2
                  ELSE i + 1
             lit == Word(SubSeq(chars, i, j - 1))
             type == IF lit \in Lexemes THEN TokenTypeOf(lit)
                     ELSE IF chars[i] \in Digits THEN "NUMBER"
                     ELSE IF chars[i] \in Letters THEN "IDENTIFIER"
                     ELSE "ILLEGAL"
         IN  <<Token(type, lit, Position(1, i))>> \o ScanFrom(chars, j)

\* lexer.Lexer on a text given as its characters.
LexerOnChars(chars) ==
    [input |-> ScanFrom(chars, 1), next |-> 1, eofCol |-> Len(chars) + 1]

\* A node with every position in it set to zero.
RECURSIVE Unpositioned(_)
Unpositioned(n) ==
    LET tok(t) == [t EXCEPT !.Pos = Position(0, 0)]
        all(ms) == [i \in 1..Len(ms) |-> Unpositioned(ms[i])]
        \* the entries of a map, each with the number of times it occurs
        entries(prs) ==
            LET e(i) == <<Unpositioned(prs[i][1]), Unpositioned(prs[i][2])>>
            IN  [x \in {e(i) : i \in 1..Len(prs)} |->
                    Cardinality({i \in 1..Len(prs) : e(i) = x})]
        t == IF "Token" \in DOMAIN n THEN [n EXCEPT !.Token = tok(@)] ELSE n
    IN
    CASE n.node = "Program" -> [t EXCEPT !.Statements = all(@)]
      [] n.node = "LetStatement" ->
            [t EXCEPT !.Name = Unpositioned(@), !.Value = Unpositioned(@)]
      [] n.node = "ReturnStatement" ->
            [t EXCEPT !.ReturnValue = Unpositioned(@), !.ReturnValues = all(@)]
      [] n.node = "BlockStatement" ->
            [t EXCEPT !.Statements = all(@), !.RBraceToken = tok(@)]
      [] n.node = "ExpressionStatement" -> [t EXCEPT !.Expression = Unpositioned(@)]
      [] n.node = "InfixExpression" ->
            [t EXCEPT !.Left = Unpositioned(@), !.Right = Unpositioned(@)]
      [] n.node = "PrefixExpression" -> [t EXCEPT !.Right = Unpositioned(@)]
      [] n.node = "PostfixExpression" -> [t EXCEPT !.Left = Unpositioned(@)]
      [] n.node = "FunctionLiteral" ->
            [t EXCEPT !.Parameters = all(@), !.Body = Unpositioned(@)]
      [] n.node = "ArrayLiteral" -> [t EXCEPT !.Members = all(@)]
      [] n.node = "IndexExpression" ->
            [t EXCEPT !.Left = Unpositioned(@), !.Index = Unpositioned(@)]
      [] n.node = "HashLiteral" ->
            [t EXCEPT !.Pairs = entries(@), !.RBraceToken = tok(@)]
      [] n.node = "CallExpression" ->
            [t EXCEPT !.Function = Unpositioned(@), !.Arguments = all(@)]
      [] n.node = "MethodCallExpression" ->
            [t EXCEPT !.Object = Unpositioned(@), !.Call = Unpositioned(@)]
      [] n.node = "IfExpression" ->
            [t EXCEPT !.Conditions = all(@), !.Alternative = Unpositioned(@)]
      [] n.node = "IfConditionExpr" ->
            [t EXCEPT !.Cond = Unpositioned(@), !.Body = Unpositioned(@)]
      [] OTHER -> t

\* ParseProgram has returned with no error and a Program that renders: its
\* rendering, in one of the orders the map of a hash may be visited in, is
\* parsed by a fresh parser.  The frame keeps the Program and the rendering.
Reparse ==
    /\ Done
    /\ ret # Nil
    /\ p.errors = <<>>
    /\ \E rev \in BOOLEAN :
          LET text == String(ret, rev)
          IN  /\ text # Panic
              /\ p' = NewParser(LexerOnChars(text))
              /\ stack' = <<[fn |-> "Reparse", pc |-> "afterParse", arg |-> Nil,
                             loc |-> [program |-> ret, text |-> text],
                             erred |-> FALSE],
                            Enter("ParseProgram", Nil)>>
              /\ ret' = Nil
              /\ steps' = 0

\* The parser, and the rendering of its error-free Program parsed again.
RoundTrip == Init /\ [][Next \/ Reparse]_vars

\* The second parse has returned; ret is its Program and Top.loc holds the
\* first Program and the rendering that was parsed.
Reparsed == Running("Reparse")

\* The running function fn returns in this step; ret' is what it returns.
Returns(fn) == Running(fn) /\ Len(stack') = Len(stack) - 1

\* Token i of the input.
Tok(i) == p.l.input[i]

\* The node a one-token operand parses to.
Operand(i) == CallLeafPrefix(prefixParseFns[Tok(i).Type], [p EXCEPT !.curToken = Tok(i)]).node

\* end >= pos in lexicographic (line, column) order.
PosGE(end, pos) == end.Line > pos.Line \/ (end.Line = pos.Line /\ end.Col >= pos.Col)

-----------------------------------------------------------------------------
(* The claims.                                                             *)

\* C1: when ParseProgram has returned, the current token is EOF.
ParseProgramEndsAtEOF == Done => p.curToken.Type = "EOF"

\* ParseProgram has returned a program of two statements or more.
ParseProgramEndsAtEOF_Witness == Done /\ Len(ret.Statements) >= 2

\* The steps ParseProgram takes for each token of the input, at most.
StepsPerToken == 12

\* C2: ParseProgram terminates: until it has returned a step is possible, and
\* it takes at most StepsPerToken steps for each token and the EOF.
ParseProgramTerminates ==
    /\ steps <= StepsPerToken * (Len(p.l.input) + 1)
    /\ ~Done => ENABLED Next

\* ParseProgram has returned from a malformed input, with an error recorded
\* and a block that the end of the input closed.
ParseProgramTerminates_Witness ==
    /\ Done
    /\ Len(p.errors) > 0
    /\ \E n \in Nodes(ret) : n.node = "BlockStatement" /\ n.RBraceToken.Type = "EOF"

\* C3: errors and errorLines have the same length in every state.
ErrorsAligned == Len(p.errors) = Len(p.errorLines)

\* Two errors are recorded and the parse is still running.
ErrorsAligned_Witness == ~Done /\ Len(p.errors) >= 2 /\ Len(p.errorLines) >= 2

\* C4: every block parseBlockStatement returns has an RBraceToken of kind
\* RBRACE.
BlockEndsAtRBrace ==
    [][Returns("parseBlockStatement") => ret'.RBraceToken.Type = "RBRACE"]_vars

\* C5: every Infix node of the Program ParseProgram returns has a left and a
\* right operand.
InfixOperandsPresent ==
    Done => \A n \in Nodes(ret) :
                n.node = "InfixExpression" => n.Left # Nil /\ n.Right # Nil

\* C6: every If node parseIfExpression returns has at least one condition.
IfHasCondition ==
    [][Returns("parseIfExpression") => Len(ret'.Conditions) >= 1]_vars

\* C7: every node of the Program whose Pos() and End() return has
\* End() >= Pos().
EndNotBeforePos ==
    Done => \A n \in Nodes(ret) :
                (Pos(n) # PanicPos /\ End(n) # PanicPos) => PosGE(End(n), Pos(n))

\* The input is x op1 y op2 z: three operands and two binary operators.
IsChain ==
    /\ Len(p.l.input) = 5
    /\ \A i \in {1, 3, 5} : Tok(i).Literal \in Operands
    /\ \A i \in {2, 4} : Tok(i).Literal \in BinaryOperators

\* x op1 (y op2 z)
RightNested ==
    Program(<<ExpressionStatement(Tok(1),
                InfixExpression(Tok(2), Operand(1),
                    InfixExpression(Tok(4), Operand(3), Operand(5))))>>)

\* (x op1 y) op2 z
LeftNested ==
    Program(<<ExpressionStatement(Tok(1),
                InfixExpression(Tok(4),
                    InfixExpression(Tok(2), Operand(1), Operand(3)), Operand(5)))>>)

IsPowerChain == IsChain /\ Tok(2).Type = "POWER" /\ Tok(4).Type = "POWER"

\* C8: x ** y ** z parses as Infix(x, **, Infix(y, **, z)).
PowerRightAssociative == (Done /\ IsPowerChain) => ret = RightNested

PowerRightAssociative_Witness == Done /\ IsPowerChain /\ ret = RightNested

IsLevelChain ==
    /\ IsChain
    /\ Tok(2).Type # "POWER"
    /\ Tok(4).Type # "POWER"
    /\ precedences[Tok(2).Type] = precedences[Tok(4).Type]

\* C9: x op1 y op2 z, op1 and op2 of one precedence level and neither of them
\* '**', parses as Infix(Infix(x, op1, y), op2, z).
OthersLeftAssociative == (Done /\ IsLevelChain) => ret = LeftNested

\* Such a chain of two different operators is parsed.
OthersLeftAssociative_Witness ==
    Done /\ IsLevelChain /\ Tok(2).Type # Tok(4).Type /\ ret = LeftNested

\* The input is x.b op z.
IsDotChain ==
    /\ Len(p.l.input) = 5
    /\ Tok(1).Literal \in Operands
    /\ Tok(2).Type = "DOT"
    /\ Tok(3).Type = "IDENTIFIER"
    /\ Tok(4).Literal \in BinaryOperators
    /\ Tok(5).Literal \in Operands

\* (x.b) op z
DotThenInfix ==
    Program(<<ExpressionStatement(Tok(1),
                InfixExpression(Tok(4),
                    MethodCallExpression(Tok(2), Operand(1), Identifier(Tok(3))),
                    Operand(5)))>>)

\* C10: x.b op z parses as Infix(MethodCall(x, b), op, z).
DotBindsAtCall == (Done /\ IsDotChain) => ret = DotThenInfix

DotBindsAtCall_Witness == Done /\ IsDotChain /\ ret = DotThenInfix

\* The input is ( x op1 y ) op2 z.
IsGroupChain == Len(p.l.input) = 7 /\ Source \in GroupChains

\* (x op1 y) op2 z, with no node for the parentheses.
GroupNested ==
    Program(<<ExpressionStatement(Tok(1),
                InfixExpression(Tok(6),
                    InfixExpression(Tok(3), Operand(2), Operand(4)), Operand(7)))>>)

\* C11: ( x op1 y ) op2 z parses as Infix(Infix(x, op1, y), op2, z) for every
\* two binary operators, and ( 1 + 2 ) * 3 renders as ((1 + 2) * 3).
GroupIsOneOperand ==
    /\ (Done /\ IsGroupChain) => ret = GroupNested
    /\ (Done /\ Source = <<"(", "1", "+", "2", ")", "*", "3">>) =>
            String(ret, FALSE) =
                <<"(", "(", "1", " ", "+", " ", "2", ")", " ", "*", " ", "3", ")">>

\* A sum in parentheses is the left operand of a product.
GroupIsOneOperand_Witness ==
    /\ Done
    /\ Source = <<"(", "1", "+", "2", ")", "*", "3">>
    /\ ret = GroupNested
    /\ p.errors = <<>>

\* C12: the rendering of an error-free Program parses to the same tree,
\* positions aside.
RoundTripSameTree == Reparsed => Unpositioned(ret) = Unpositioned(Top.loc.program)

\* C13: the Program parsed from the rendering of an error-free Program
\* renders to the same characters.
RenderingFixedPoint == Reparsed => \A rev \in BOOLEAN : String(ret, rev) = Top.loc.text

\* a is b, or b with entries added at its end.
IsPrefix(a, b) == Len(a) <= Len(b) /\ SubSeq(b, 1, Len(a)) = a

\* C14: every step leaves errors as it was or adds entries at its end, and
\* once an error is recorded the parse still goes on (a step is possible
\* until ParseProgram has returned) and ends with the current token at EOF.
ErrorsAccumulate ==
    /\ [][IsPrefix(p.errors, p'.errors)]_vars
    /\ []((Len(p.errors) > 0 /\ ~Done) => ENABLED Next)
    /\ []((Len(p.errors) > 0 /\ Done) => p.curToken.Type = "EOF")

\* ParseProgram has returned with three errors or more and a statement in
\* the Program.
ErrorsAccumulate_Witness ==
    Done /\ Len(p.errors) >= 3 /\ Len(ret.Statements) >= 1 /\ p.curToken.Type = "EOF"

\* The functions that parse the constructs of C15.
Constructs ==
    {"parseLetStatement", "parseArrayLiteral", "parseCallExpression",
     "parseFunctionLiteral", "parseHashLiteral", "parseIndexExpression",
     "parseGroupedExpression", "parseIfExpression"}

\* C15: a construct's parse function that recorded an error, itself or
\* through the helper that parses its parts, returns no node.
ErrorMeansNoNode ==
    [][\A fn \in Constructs :
          (Returns(fn) /\ (Top.erred \/ Recorded)) => ret' = Nil]_vars

\* The position of the first token among those of n and of the nodes below
\* it: where the source text that n covers begins.
Start(n) ==
    LET ps == {m.Token.Pos : m \in {x \in Nodes(n) : "Token" \in DOMAIN x}}
    IN  CHOOSE q \in ps : \A r \in ps : PosGE(r, q)

\* C16: Pos() of every node of the Program is the position of the first
\* character of the text the node covers; for an Infix, Postfix, Index or
\* MethodCall node that is where its left operand begins.
PosIsFirstCharacter ==
    Done => \A n \in Nodes(ret) :
                /\ (n.node # "Program" /\ Pos(n) # PanicPos) => Pos(n) = Start(n)
                /\ (n.node \in {"InfixExpression", "PostfixExpression", "IndexExpression"}
                        /\ n.Left # Nil) => Pos(n) = Start(n.Left)
                /\ (n.node = "MethodCallExpression" /\ n.Object # Nil) =>
                        Pos(n) = Start(n.Object)

\* C17: the Program of a parse that recorded no error renders: String()
\* returns, whatever the order the map of a hash is visited in.
ErrorFreeProgramRenders ==
    (Done /\ p.errors = <<>>) => \A rev \in BOOLEAN : String(ret, rev) # Panic

\* The expression statement at token 1 that is the whole Program.
OneExpression(exp) == Program(<<ExpressionStatement(Tok(1), exp)>>)

\* x lo y hi z: the second operator is on a higher level than the first.
IsRisingChain == IsChain /\ precedences[Tok(2).Type] < precedences[Tok(4).Type]

\* x hi y lo z: the second operator is on a lower level than the first.
IsFallingChain == IsChain /\ precedences[Tok(2).Type] > precedences[Tok(4).Type]

\* C18: a binary operator of a higher level binds tighter (x lo y hi z is
\* Infix(x, lo, Infix(y, hi, z)) and x hi y lo z is Infix(Infix(x, hi, y),
\* lo, z)); a prefix operator binds tighter than every binary operator and
\* looser than ++, --, a call, an index and a dot.
HigherBindsTighter ==
    Done =>
      /\ IsRisingChain => ret = RightNested
      /\ IsFallingChain => ret = LeftNested
      /\ Source \in PrefixChains =>
            ret = OneExpression(InfixExpression(Tok(3),
                      PrefixExpression(Tok(1), Operand(2)), Operand(4)))
      /\ (Source \in PrefixPostfixes /\ Tok(3).Type \in {"INCREMENT", "DECREMENT"}) =>
            ret = OneExpression(PrefixExpression(Tok(1),
                      PostfixExpression(Tok(3), Operand(2))))
      /\ (Source \in PrefixPostfixes /\ Tok(3).Type = "LPAREN") =>
            ret = OneExpression(PrefixExpression(Tok(1),
                      CallExpression(Tok(3), Operand(2), <<Operand(4)>>)))
      /\ (Source \in PrefixPostfixes /\ Tok(3).Type = "LBRACKET") =>
            ret = OneExpression(PrefixExpression(Tok(1),
                      IndexExpression(Tok(3), Operand(2), Operand(4))))
      /\ (Source \in PrefixPostfixes /\ Tok(3).Type = "DOT") =>
            ret = OneExpression(PrefixExpression(Tok(1),
                      MethodCallExpression(Tok(3), Operand(2), Identifier(Tok(4)))))

\* A prefix operator's operand ends before a binary operator of the
\* highest level.
HigherBindsTighter_Witness ==
    /\ Done
    /\ Source \in PrefixChains
    /\ Tok(3).Type = "POWER"
    /\ ret = OneExpression(InfixExpression(Tok(3),
                  PrefixExpression(Tok(1), Operand(2)), Operand(4)))

\* The token kinds.
Kinds == {TokenTypeOf(lit) : lit \in Lexemes} \cup {"EOF"}

\* What C19 says of expectPeek(k) called in parser state q.
ExpectPeekFrame(q, k) ==
    LET e == expectPeek(q, k)
        n == NextToken(q.l)
    IN  IF q.peekToken.Type = k
        THEN /\ e.ok
             /\ e.p.curToken = q.peekToken
             /\ e.p.peekToken = n.tok
             /\ e.p.l = n.l
             /\ e.p.errors = q.errors
             /\ e.p.errorLines = q.errorLines
        ELSE /\ ~e.ok
             /\ Len(e.p.errors) = Len(q.errors) + 1
             /\ IsPrefix(q.errors, e.p.errors)
             /\ Len(e.p.errorLines) = Len(q.errorLines) + 1
             /\ IsPrefix(q.errorLines, e.p.errorLines)
             /\ e.p.curToken = q.curToken
             /\ e.p.peekToken = q.peekToken
             /\ e.p.l = q.l

\* C19: expectPeek(k) advances or reports, never both, in every state the
\* parser reaches and for every kind k; and so does the call of
\* expectPeek(RPAREN) that ends parseGroupedExpression, which returns the
\* expression when it advanced and nil when it reported.
ExpectPeekAdvancesOrReports ==
    /\ [](\A k \in Kinds : ExpectPeekFrame(p, k))
    /\ [][(Running("parseGroupedExpression") /\ Top.pc = "afterExp") =>
            IF p.peekToken.Type = "RPAREN"
            THEN /\ p'.curToken = p.peekToken
                 /\ p'.l = NextToken(p.l).l
                 /\ p'.errors = p.errors
                 /\ ret' = ret
            ELSE /\ p'.curToken = p.curToken
                 /\ p'.peekToken = p.peekToken
                 /\ p'.l = p.l
                 /\ Len(p'.errors) = Len(p.errors) + 1
                 /\ Len(p'.errorLines) = Len(p.errorLines) + 1
                 /\ ret' = Nil]_vars

\* expectPeek has reported: the newest error is its report, and the kind it
\* found is still the kind of the peek token.
ExpectPeekAdvancesOrReports_Witness ==
    /\ ~Done
    /\ Len(p.errors) >= 1
    /\ p.errors[Len(p.errors)].msg = "expected next token"
    /\ p.errors[Len(p.errors)].b = p.peekToken.Type
    /\ p.peekToken.Type # "EOF"

\* parseExpression is about to run with a current token that has no prefix
\* parselet.
NoPrefixParselet ==
    /\ Running("parseExpression")
    /\ Top.pc = "start"
    /\ p.curToken.Type \notin DOMAIN prefixParseFns

\* C20: parseExpression called on a token with no prefix parselet returns
\* nil and consumes nothing; it records exactly one "no prefix parse
\* functions" error for that token, or none at all when the token is EOF;
\* so the input `3 **` finishes with an empty errors list.
NoPrefixReturnsNil ==
    /\ [][NoPrefixParselet =>
            /\ Returns("parseExpression")
            /\ ret' = Nil
            /\ p'.curToken = p.curToken
            /\ p'.peekToken = p.peekToken
            /\ p'.l = p.l
            /\ IF p.curToken.Type = "EOF"
               THEN /\ p'.errors = p.errors
                    /\ p'.errorLines = p.errorLines
               ELSE /\ p'.errors = Append(p.errors,
                           Error("no prefix parse functions", p.curToken.Pos,
                                 p.curToken.Type, ""))
                    /\ p'.errorLines = Append(p.errorLines,
                                              Sline(p.curToken.Pos))]_vars
    /\ []((Done /\ Source = <<"3", "**">>) => p.errors = <<>>)

\* `3 **` has been parsed to the end: the right operand of `**` is nil and
\* nothing was recorded.
NoPrefixReturnsNil_Witness ==
    /\ Done
    /\ Source = <<"3", "**">>
    /\ p.errors = <<>>
    /\ Len(ret.Statements) = 1
    /\ ret.Statements[1].Expression.node = "InfixExpression"
    /\ ret.Statements[1].Expression.Right = Nil

\* The parameters parseFunctionParameters has taken when it returns: the
\* tokens in parameter positions, whatever it then returns.
ParametersTaken ==
    IF Top.pc = "loop"
    THEN Top.loc
    ELSE IF peekTokenIs(p, "RPAREN") THEN <<>> ELSE <<Identifier(p.peekToken)>>

\* C21: every parameter of a function literal that parseFunctionLiteral
\* returns comes from an IDENTIFIER token, and a call of
\* parseFunctionParameters that met a token of another kind in a parameter
\* position has recorded an error by the time it returns.
ParametersAreIdentifiers ==
    /\ [][(Returns("parseFunctionLiteral") /\ ret' # Nil) =>
            \A i \in 1..Len(ret'.Parameters) :
                ret'.Parameters[i].Token.Type = "IDENTIFIER"]_vars
    /\ [][(Returns("parseFunctionParameters") /\
            \E i \in 1..Len(ParametersTaken) :
                ParametersTaken[i].Token.Type # "IDENTIFIER") =>
            (Top.erred \/ Recorded)]_vars

\* parseConditionalExpression has parsed a condition and the next token is
\* not `{`.
IfWithoutLBrace ==
    /\ Running("parseConditionalExpression")
    /\ Top.pc = "afterCond"
    /\ p.peekToken.Type # "LBRACE"

\* parseConditionalExpressions is at an `else` that neither `if` nor `{`
\* follows.
ElseWithoutLBrace ==
    /\ Running("parseConditionalExpressions")
    /\ Top.pc = "afterCondition"
    /\ p.peekToken.Type = "ELSE"
    /\ NextToken(p.l).tok.Type \notin {"IF", "LBRACE"}

\* C22: a condition that no `{` follows appends exactly one "'if' expression
\* must be followed by a '{'" error and parses no body: the call returns nil
\* there and then.  An `else` that neither `if` nor `{` follows appends
\* exactly one "'else' part must be followed by a '{'" error and sets no
\* alternative, and the IfExpression is returned with the alternative it was
\* handed.
IfMistakeRecordsOneError ==
    /\ [][IfWithoutLBrace =>
            /\ p'.errors = Append(p.errors,
                    Error("'if' expression must be followed by a '{'.",
                          p.curToken.Pos, "", ""))
            /\ p'.errorLines = Append(p.errorLines, Sline(p.curToken.Pos))
            /\ Returns("parseConditionalExpression")
            /\ ret' = Nil]_vars
    /\ [][ElseWithoutLBrace =>
            /\ p'.errors = Append(p.errors,
                    Error("'else' part must be followed by a '{'.",
                          p.peekToken.Pos, "", ""))
            /\ p'.errorLines = Append(p.errorLines, Sline(p.peekToken.Pos))
            /\ Returns("parseConditionalExpressions")
            /\ ret'.Alternative = Nil]_vars
    /\ [][Returns("parseIfExpression") => ret'.Alternative = ret.Alternative]_vars

\* Both mistakes have happened in one `if`: a condition without a block, then
\* an `else` without one; each left one error, and the IfExpression is about
\* to be returned without an alternative.
IfMistakeRecordsOneError_Witness ==
    /\ Running("parseIfExpression")
    /\ Top.pc = "afterConditions"
    /\ Len(p.errors) = 2
    /\ p.errors[1].msg = "'if' expression must be followed by a '{'."
    /\ p.errors[2].msg = "'else' part must be followed by a '{'."
    /\ ret.Alternative = Nil

\* parseLetStatement is about to run on `let`, a name, and a token that is
\* not `=`.
LetWithoutAssign ==
    /\ Running("parseLetStatement")
    /\ Top.pc = "start"
    /\ p.peekToken.Type = "IDENTIFIER"
    /\ NextToken(p.l).tok.Type # "ASSIGN"

\* C23: a let statement whose name is not followed by `=` is a declaration
\* without value: parseLetStatement returns the LetStatement with the name
\* and no value, leaves the current token on the name, and records no error.
LetWithoutValueAccepted ==
    [][LetWithoutAssign =>
        /\ Returns("parseLetStatement")
        /\ ret'.node = "LetStatement"
        /\ ret'.Name = Identifier(p.peekToken)
        /\ ret'.Value = Nil
        /\ p'.curToken = p.peekToken
        /\ p'.errors = p.errors
        /\ p'.errorLines = p.errorLines]_vars

\* x ** y op z, with op one of the other operators of the level of `**`.
IsPowerThenProduct ==
    /\ IsChain
    /\ Tok(2).Type = "POWER"
    /\ Tok(4).Type \in {"MULTIPLY", "DIVIDE", "MOD"}

\* C24: x ** y op z, with op one of *, / and %, parses as
\* Infix(Infix(x, **, y), op, z): the right operand of `**` is y alone.
PowerThenProductLeftNested == (Done /\ IsPowerThenProduct) => ret = LeftNested

====
